---- MODULE Spec2Model ----
(***************************************************************************)
(* Model of food.py, the Streamlit "Local Food Wastage Management System". *)
(* The script is re-run top to bottom by every browser session on every    *)
(* interaction.  Each run selects one of five pages; a page issues one or  *)
(* more database operations (fetch_data / execute_query), each on a        *)
(* connection of its own, and renders widgets.                             *)
(*                                                                         *)
(* One action of the model is one database operation of the script         *)
(* together with the local code that follows it up to the next database    *)
(* operation; execute_query is split at its three database calls           *)
(* (connect, execute, commit) because the store is observable by other     *)
(* sessions between them.                                                  *)
(***************************************************************************)
EXTENDS Integers, Sequences, FiniteSets, TLC

VARIABLES
    providers,      \* table providers      (committed rows, in rowid order)
    receivers,      \* table receivers
    food_listings,  \* table food_listings
    claims,         \* table claims
    txn,            \* the pending (uncommitted) write transaction, or NoTxn
    open,           \* open[s]: connections session s opened and has not closed
    pc,             \* pc[s]: where the script run of session s stands
    params,         \* params[s]: the tuple bound to the INSERT of this run
    attempts,       \* attempts[s]: calls of execute_query made by this run
    out,            \* out[s]: the widgets this run has rendered so far
    zone,           \* where the server's time zone lies: "west", "utc", "east"
    utcDay,         \* index in Calendar of the current UTC date
    localDay        \* index in Calendar of the current local date

vars == <<providers, receivers, food_listings, claims, txn, open, pc, params,
          attempts, out, zone, utcDay, localDay>>

clock == <<zone, utcDay, localDay>>

store == <<providers, receivers, food_listings, claims>>

-----------------------------------------------------------------------------
(* Bounds of the model *)

\* food_listings holds at most this many rows (guard of the INSERT)
MaxListings == 2
\* a session has at most this many unreleased connections at a time
MaxOpen == 1

Sessions == {"s1", "s2"}

-----------------------------------------------------------------------------
(* Dates and their text form *)

\* consecutive calendar days across a month change from a one-digit to a
\* two-digit month number
Calendar ==
    << [year |-> 2026, month |-> 9,  day |-> 29],
       [year |-> 2026, month |-> 9,  day |-> 30],
       [year |-> 2026, month |-> 10, day |-> 1],
       [year |-> 2026, month |-> 10, day |-> 2] >>

Days == 1..Len(Calendar)

\* datetime.date ordering: by (year, month, day)
DateLT(a, b) ==
    \/ a.year < b.year
    \/ a.year = b.year /\ a.month < b.month
    \/ a.year = b.year /\ a.month = b.month /\ a.day < b.day

\* text is a sequence of character codes ("0" is 48, "-" is 45)
Pad2(n) == << 48 + (n \div 10), 48 + (n % 10) >>
Pad4(n) == << 48 + (n \div 1000), 48 + ((n \div 100) % 10),
              48 + ((n \div 10) % 10), 48 + (n % 10) >>

\* sqlite3's default adapter for datetime.date: val.isoformat(), YYYY-MM-DD
isoformat(d) == Pad4(d.year) \o <<45>> \o Pad2(d.month) \o <<45>> \o Pad2(d.day)

\* SQLite DATE('now'): the current UTC date as YYYY-MM-DD
SqliteDateNow ==
    LET d == Calendar[utcDay]
    IN  Pad4(d.year) \o <<45>> \o Pad2(d.month) \o <<45>> \o Pad2(d.day)

\* date.today(): the current local date
today == Calendar[localDay]

\* SQLite's < on two TEXT values (BINARY collation, memcmp)
TextLT(a, b) ==
    \/ \E i \in 1..Len(a) :
          /\ i <= Len(b)
          /\ \A j \in 1..(i - 1) : a[j] = b[j]
          /\ a[i] < b[i]
    \/ /\ Len(a) < Len(b)
       /\ \A j \in 1..Len(a) : a[j] = b[j]

-----------------------------------------------------------------------------
(* The store: four tables.  A table is the sequence of its committed rows. *)

NoTxn == [kind |-> "none"]

\* Initial contents of the store.  The script creates no table and fills none
\* but food_listings; what it starts from is whatever the database file
\* holds.  Expiry_Date is TEXT in the form the script itself writes.
EmptyStore ==
    [providers |-> <<>>, receivers |-> <<>>, food_listings |-> <<>>,
     claims |-> <<>>]

PopulatedStore ==
    [providers |->
        << [Provider_ID |-> 1, Name |-> "Daily Bread", Type |-> "Bakery",
            City |-> "Springfield"],
           [Provider_ID |-> 2, Name |-> "Green Bowl", Type |-> "Restaurant",
            City |-> "Springfield"] >>,
     receivers |->
        << [Receiver_ID |-> 1, Name |-> "Shelter One", City |-> "Springfield"] >>,
     food_listings |->
        << [Food_ID |-> 1, Food_Name |-> "Soup", Quantity |-> 5,
            Expiry_Date |-> isoformat(Calendar[1]), Provider_ID |-> 2,
            Provider_Type |-> "Restaurant", Location |-> "Springfield",
            Food_Type |-> "Vegan", Meal_Type |-> "Lunch"] >>,
     claims |->
        << [Claim_ID |-> 1, Food_ID |-> 1, Receiver_ID |-> 1,
            Status |-> "Completed", Timestamp |-> 1],
           [Claim_ID |-> 2, Food_ID |-> 2, Receiver_ID |-> 1,
            Status |-> "Pending", Timestamp |-> 2],
           [Claim_ID |-> 3, Food_ID |-> 1, Receiver_ID |-> 7,
            Status |-> "Pending", Timestamp |-> 3] >>]

InitStores == {EmptyStore, PopulatedStore}

\* the values of a sequence
Range(t) == { t[i] : i \in 1..Len(t) }

\* The identity the store gives a row inserted without one: one more than the
\* largest identity in the table (1 for an empty table).
NextFoodId ==
    IF food_listings = <<>> THEN 1
    ELSE 1 + (CHOOSE m \in { r.Food_ID : r \in Range(food_listings) } :
                 \A r \in Range(food_listings) : r.Food_ID <= m)

-----------------------------------------------------------------------------
(* Queries *)

\* SELECT COUNT(*) AS c FROM <table>, then ["c"][0]
CountRows(t) == Len(t)

\* a mutant of GroupByLocation: one row per location, but counting the
\* location instead of its listings (COUNT(DISTINCT Location))
GroupByLocationDistinct(t) ==
    { [Location |-> l, Listings |-> 1] : l \in { r.Location : r \in Range(t) } }

\* SELECT Location, COUNT(*) AS Listings FROM food_listings GROUP BY Location
\* (the rows of a GROUP BY come in no order the query fixes: a set of rows)
GroupByLocation(t) ==
    { [Location |-> l,
       Listings |-> Cardinality({ i \in 1..Len(t) : t[i].Location = l })] :
      l \in { r.Location : r \in Range(t) } }

\* a mutant of FilterListings: the meal type filter is not applied
FilterListingsNoMeal(df, city, food_type, meal_type) ==
    LET df1 == IF city # "All"
               THEN SelectSeq(df, LAMBDA r : r.Location = city) ELSE df
    IN  IF food_type # "All"
        THEN SelectSeq(df1, LAMBDA r : r.Food_Type = food_type) ELSE df1

\* The three filters of the Listing Browser, in the order the script applies
\* them: city, then food type, then meal type.
FilterListings(df, city, food_type, meal_type) ==
    LET df1 == IF city # "All"
               THEN SelectSeq(df, LAMBDA r : r.Location = city) ELSE df
        df2 == IF food_type # "All"
               THEN SelectSeq(df1, LAMBDA r : r.Food_Type = food_type) ELSE df1
    IN  IF meal_type # "All"
        THEN SelectSeq(df2, LAMBDA r : r.Meal_Type = meal_type) ELSE df2

\* options of a selectbox: "All" and the distinct values of one column
CityOptions(df) == {"All"} \cup { r.Location : r \in Range(df) }
FoodTypeOptions(df) == {"All"} \cup { r.Food_Type : r \in Range(df) }
MealTypeOptions(df) == {"All"} \cup { r.Meal_Type : r \in Range(df) }

\* the row the Claims page shows for claim c joined to listing f, receiver r
ClaimRow(c, f, r) ==
    [Claim_ID |-> c.Claim_ID, Food_Name |-> f.Food_Name,
     Receiver_Name |-> r.Name, Status |-> c.Status, Timestamp |-> c.Timestamp]

\* the rows of one claim in claims JOIN food_listings JOIN receivers
JoinedRows(c, fl, rc) ==
    LET fs == SelectSeq(fl, LAMBDA f : f.Food_ID = c.Food_ID)
        rs == SelectSeq(rc, LAMBDA r : r.Receiver_ID = c.Receiver_ID)
    IN  [ i \in 1..(Len(fs) * Len(rs)) |->
            ClaimRow(c, fs[((i - 1) \div Len(rs)) + 1],
                        rs[((i - 1) % Len(rs)) + 1]) ]

\* a mutant of ClaimsJoin: LEFT JOINs, a claim with no listing or no receiver
\* still gives a row, with NULL for the missing name
RECURSIVE ClaimsLeftJoin(_, _, _)
ClaimsLeftJoin(cs, fl, rc) ==
    IF cs = <<>> THEN <<>>
    ELSE LET c == Head(cs)
             rows == JoinedRows(c, fl, rc)
         IN  (IF rows = <<>>
              THEN << [Claim_ID |-> c.Claim_ID, Food_Name |-> "NULL",
                       Receiver_Name |-> "NULL", Status |-> c.Status,
                       Timestamp |-> c.Timestamp] >>
              ELSE rows) \o ClaimsLeftJoin(Tail(cs), fl, rc)

\* SELECT ... FROM claims c JOIN food_listings f ON c.Food_ID = f.Food_ID
\*                          JOIN receivers r ON c.Receiver_ID = r.Receiver_ID
RECURSIVE ClaimsJoin(_, _, _)
ClaimsJoin(cs, fl, rc) ==
    IF cs = <<>> THEN <<>>
    ELSE JoinedRows(Head(cs), fl, rc) \o ClaimsJoin(Tail(cs), fl, rc)

\* The result columns of the fifteen reports, from their SELECT lists.
QueryColumns ==
    << <<"City", "Provider_Count">>,
       <<"City", "Receiver_Count">>,
       <<"Provider_Type", "Total_Quantity">>,
       <<"Name", "Type", "City", "Contact">>,
       <<"Name", "Total_Claims">>,
       <<"Total_Food_Quantity">>,
       <<"Location", "Listings">>,
       <<"Food_Type", "Count">>,
       <<"Food_Name", "Claim_Count">>,
       <<"Name", "Successful_Claims">>,
       <<"Status", "Count">>,
       <<"Name", "Avg_Quantity">>,
       <<"Meal_Type", "Claims">>,
       <<"Name", "Total_Donated">>,
       <<"Food_Name", "Expiry_Date", "Location">> >>

\* report 15: SELECT Food_Name, Expiry_Date, Location FROM food_listings
\*            WHERE Expiry_Date < DATE('now')
ExpiredFoodItems(t) ==
    SelectSeq(t, LAMBDA r : TextLT(r.Expiry_Date, SqliteDateNow))

-----------------------------------------------------------------------------
(* Widgets *)

Metric(label, value) == [kind |-> "metric", label |-> label, value |-> value]
Selectbox(label, value) == [kind |-> "selectbox", label |-> label, value |-> value]
Dataframe(columns, rows) == [kind |-> "dataframe", columns |-> columns, rows |-> rows]
BarChart(index, columns, rows) ==
    [kind |-> "bar_chart", index |-> index, columns |-> columns, rows |-> rows]
Success == [kind |-> "success"]
Exception == [kind |-> "exception"]

(* Rendering of a report: the table always, and the chart for two columns *)

\* a mutant of RenderReport: the chart for every result of two or more columns
RenderReportWide(columns, rows) ==
    <<Dataframe(columns, rows)>>
        \o (IF Len(columns) >= 2
            THEN <<BarChart(columns[1], Tail(columns), rows)>> ELSE <<>>)

\* st.dataframe(result_df); if result_df.shape[1] == 2:
\*     st.bar_chart(result_df.set_index(result_df.columns[0]))
RenderReport(columns, rows) ==
    <<Dataframe(columns, rows)>>
        \o (IF Len(columns) = 2
            THEN <<BarChart(columns[1], Tail(columns), rows)>> ELSE <<>>)

\* The rows of a report.  Of reports 1 to 14 the script reads the column
\* count only; their rows are not part of the model.
ReportRows(q) ==
    IF q = 15
    THEN LET e == ExpiredFoodItems(food_listings)
         IN  [ i \in 1..Len(e) |->
                 [Food_Name |-> e[i].Food_Name, Expiry_Date |-> e[i].Expiry_Date,
                  Location |-> e[i].Location] ]
    ELSE "rows not modelled"

ListingColumns ==
    <<"Food_ID", "Food_Name", "Quantity", "Expiry_Date", "Provider_ID",
      "Provider_Type", "Location", "Food_Type", "Meal_Type">>

ClaimColumns == <<"Claim_ID", "Food_Name", "Receiver_Name", "Status", "Timestamp">>

-----------------------------------------------------------------------------
(* The Listing Creator form *)

NoParams == [kind |-> "none"]

\* What a user submits: the spec's example and a second listing that differs
\* from it in every field but the meal type; d1 and d2 are expiry dates.
FormInputs(d1, d2) ==
    { [food_name |-> "Bread Loaves", quantity |-> 10, expiry |-> d1,
       provider_id |-> 1, provider_type |-> "Bakery", location |-> "Springfield",
       food_type |-> "Vegetarian", meal_type |-> "Breakfast"],
      [food_name |-> "Rice", quantity |-> 1, expiry |-> d2,
       provider_id |-> 2, provider_type |-> "Restaurant", location |-> "Shelbyville",
       food_type |-> "Vegan", meal_type |-> "Breakfast"] }

\* a mutant of InsertRow: the values of Provider_Type and Location exchanged
InsertRowSwapped(v, id) ==
    [Food_ID |-> id, Food_Name |-> v.food_name, Quantity |-> v.quantity,
     Expiry_Date |-> isoformat(v.expiry), Provider_ID |-> v.provider_id,
     Provider_Type |-> v.location, Location |-> v.provider_type,
     Food_Type |-> v.food_type, Meal_Type |-> v.meal_type]

\* INSERT INTO food_listings (Food_Name, Quantity, Expiry_Date, Provider_ID,
\*   Provider_Type, Location, Food_Type, Meal_Type) VALUES (?, ?, ?, ?, ?, ?, ?, ?)
\* bound to (food_name, quantity, expiry, provider_id, provider_type, location,
\* food_type, meal_type); the date goes through sqlite3's adapter.
InsertRow(v, id) ==
    [Food_ID |-> id, Food_Name |-> v.food_name, Quantity |-> v.quantity,
     Expiry_Date |-> isoformat(v.expiry), Provider_ID |-> v.provider_id,
     Provider_Type |-> v.provider_type, Location |-> v.location,
     Food_Type |-> v.food_type, Meal_Type |-> v.meal_type]

-----------------------------------------------------------------------------
(* Script runs *)

\* the run of session s begins: the screen is cleared, locals are fresh
BeginRun(s) ==
    /\ pc[s] = "idle"
    /\ params' = [params EXCEPT ![s] = NoParams]
    /\ attempts' = [attempts EXCEPT ![s] = 0]

\* An exception leaves the script: the run ends, Streamlit shows the exception
\* below what was rendered so far.
Raise(s, shown) ==
    /\ pc' = [pc EXCEPT ![s] = "idle"]
    /\ out' = [out EXCEPT ![s] = Append(shown, Exception)]

\* fetch_data raises: in get_connection (nothing was opened), or in
\* pd.read_sql (conn.close() is skipped, the connection stays open)
fetch_data_raises(s, shown) ==
    /\ \E leak \in BOOLEAN :
          /\ leak => open[s] < MaxOpen
          /\ open' = [open EXCEPT ![s] = IF leak THEN @ + 1 ELSE @]
    /\ Raise(s, shown)

\* Dashboard, first query: SELECT COUNT(*) AS c FROM providers
DashboardProviders(s) ==
    /\ BeginRun(s)
    /\ \/ /\ out' = [out EXCEPT ![s] =
                       <<Metric("Total Providers", CountRows(providers))>>]
          /\ pc' = [pc EXCEPT ![s] = "dashboard_receivers"]
          /\ UNCHANGED open
       \/ fetch_data_raises(s, <<>>)
    /\ UNCHANGED <<store, txn, clock>>

\* a mutant of DashboardReceivers: the query of the first metric, copied
DashboardReceiversCopied(s) ==
    /\ pc[s] = "dashboard_receivers"
    /\ \/ /\ out' = [out EXCEPT ![s] =
                       Append(@, Metric("Total Receivers", CountRows(providers)))]
          /\ pc' = [pc EXCEPT ![s] = "dashboard_listings"]
          /\ UNCHANGED open
       \/ fetch_data_raises(s, out[s])
    /\ UNCHANGED <<store, txn, params, attempts, clock>>

\* Dashboard, second query: SELECT COUNT(*) AS c FROM receivers
DashboardReceivers(s) ==
    /\ pc[s] = "dashboard_receivers"
    /\ \/ /\ out' = [out EXCEPT ![s] =
                       Append(@, Metric("Total Receivers", CountRows(receivers)))]
          /\ pc' = [pc EXCEPT ![s] = "dashboard_listings"]
          /\ UNCHANGED open
       \/ fetch_data_raises(s, out[s])
    /\ UNCHANGED <<store, txn, params, attempts, clock>>

\* Dashboard, third query: SELECT COUNT(*) AS c FROM food_listings
DashboardListings(s) ==
    /\ pc[s] = "dashboard_listings"
    /\ \/ /\ out' = [out EXCEPT ![s] =
                       Append(@, Metric("Total Food Listings",
                                        CountRows(food_listings)))]
          /\ pc' = [pc EXCEPT ![s] = "dashboard_city"]
          /\ UNCHANGED open
       \/ fetch_data_raises(s, out[s])
    /\ UNCHANGED <<store, txn, params, attempts, clock>>

\* Dashboard, fourth query: listings by city, as a bar chart indexed by Location
DashboardCity(s) ==
    /\ pc[s] = "dashboard_city"
    /\ \/ /\ out' = [out EXCEPT ![s] =
                       Append(@, BarChart("Location", <<"Listings">>,
                                          GroupByLocation(food_listings)))]
          /\ pc' = [pc EXCEPT ![s] = "idle"]
          /\ UNCHANGED open
       \/ fetch_data_raises(s, out[s])
    /\ UNCHANGED <<store, txn, params, attempts, clock>>

\* View Food Listings: SELECT * FROM food_listings, three selectboxes, filters
ViewFoodListings(s) ==
    /\ BeginRun(s)
    /\ \/ LET df == food_listings
          IN  \E city \in CityOptions(df), food_type \in FoodTypeOptions(df),
                 meal_type \in MealTypeOptions(df) :
                 /\ out' = [out EXCEPT ![s] =
                        << Selectbox("City", city),
                           Selectbox("Food Type", food_type),
                           Selectbox("Meal Type", meal_type),
                           Dataframe(ListingColumns,
                               FilterListings(df, city, food_type, meal_type)) >>]
                 /\ pc' = [pc EXCEPT ![s] = "idle"]
                 /\ UNCHANGED open
       \/ fetch_data_raises(s, <<>>)
    /\ UNCHANGED <<store, txn, clock>>

\* Claims Management: the three-way join, as a table
ClaimsManagement(s) ==
    /\ BeginRun(s)
    /\ \/ /\ out' = [out EXCEPT ![s] =
                       <<Dataframe(ClaimColumns,
                                   ClaimsJoin(claims, food_listings, receivers))>>]
          /\ pc' = [pc EXCEPT ![s] = "idle"]
          /\ UNCHANGED open
       \/ fetch_data_raises(s, <<>>)
    /\ UNCHANGED <<store, txn, clock>>

\* SQL Analysis: the selected report, its table and (two columns) its chart
SqlAnalysis(s) ==
    /\ BeginRun(s)
    /\ \E q \in 1..Len(QueryColumns) :
          \/ /\ out' = [out EXCEPT ![s] =
                          <<Selectbox("Select a Query", q)>>
                              \o RenderReport(QueryColumns[q], ReportRows(q))]
             /\ pc' = [pc EXCEPT ![s] = "idle"]
             /\ UNCHANGED open
          \/ fetch_data_raises(s, <<Selectbox("Select a Query", q)>>)
    /\ UNCHANGED <<store, txn, clock>>

\* Add New Food Listing, rendered without a submission: the form alone
ShowForm(s) ==
    /\ BeginRun(s)
    /\ out' = [out EXCEPT ![s] = <<>>]
    /\ UNCHANGED <<store, txn, open, pc, clock>>

\* Add New Food Listing, submitted: execute_query begins, get_connection().
\* The widgets admit quantity >= 1, provider id >= 1, expiry >= date.today().
SubmitForm(s) ==
    /\ pc[s] = "idle"
    /\ \E v \in FormInputs(today, Calendar[IF localDay < Len(Calendar)
                                          THEN localDay + 1 ELSE localDay]) :
          /\ v.quantity >= 1
          /\ v.provider_id >= 1
          /\ ~DateLT(v.expiry, today)
          /\ params' = [params EXCEPT ![s] = v]
    /\ attempts' = [attempts EXCEPT ![s] = 1]
    /\ \/ /\ open[s] < MaxOpen
          /\ open' = [open EXCEPT ![s] = @ + 1]
          /\ pc' = [pc EXCEPT ![s] = "execute"]
          /\ out' = [out EXCEPT ![s] = <<>>]
       \/ /\ Raise(s, <<>>)
          /\ UNCHANGED open
    /\ UNCHANGED <<store, txn, clock>>

\* execute_query: cur.execute(query, params).  The INSERT takes the write
\* lock and stays uncommitted; it fails while another connection holds the
\* lock, and may fail for the store's own reasons.  On failure the exception
\* leaves execute_query past conn.close(): the connection stays open.
execute_query_execute(s) ==
    /\ pc[s] = "execute"
    /\ \/ /\ txn = NoTxn
          /\ Len(food_listings) < MaxListings
          /\ txn' = [kind |-> "insert", owner |-> s,
                     row |-> InsertRow(params[s], NextFoodId)]
          /\ pc' = [pc EXCEPT ![s] = "commit"]
          /\ UNCHANGED out
       \/ /\ Raise(s, out[s])
          /\ UNCHANGED txn
    /\ UNCHANGED <<store, open, params, attempts, clock>>

\* a mutant of execute_query_commit: a commit that fails has written the
\* row already
execute_query_commit_torn(s) ==
    /\ pc[s] = "commit"
    /\ txn.owner = s
    /\ food_listings' = Append(food_listings, txn.row)
    /\ txn' = NoTxn
    /\ \/ /\ pc' = [pc EXCEPT ![s] = "close"]
          /\ UNCHANGED out
       \/ Raise(s, out[s])
    /\ UNCHANGED <<providers, receivers, claims, open, params, attempts, clock>>

\* a mutant of execute_query_commit: the statement writes over the newest
\* row (an UPDATE where the INSERT should be)
execute_query_commit_overwrite(s) ==
    /\ pc[s] = "commit"
    /\ txn.owner = s
    /\ \/ /\ food_listings' =
                IF food_listings = <<>> THEN <<txn.row>>
                ELSE [food_listings EXCEPT ![Len(food_listings)] = txn.row]
          /\ txn' = NoTxn
          /\ pc' = [pc EXCEPT ![s] = "close"]
          /\ UNCHANGED out
       \/ /\ Raise(s, out[s])
          /\ UNCHANGED <<food_listings, txn>>
    /\ UNCHANGED <<providers, receivers, claims, open, params, attempts, clock>>

\* execute_query: conn.commit().  On success the row is in the table; on
\* failure the transaction stays pending on the connection, which stays open.
execute_query_commit(s) ==
    /\ pc[s] = "commit"
    /\ txn.owner = s
    /\ \/ /\ food_listings' = Append(food_listings, txn.row)
          /\ txn' = NoTxn
          /\ pc' = [pc EXCEPT ![s] = "close"]
          /\ UNCHANGED out
       \/ /\ Raise(s, out[s])
          /\ UNCHANGED <<food_listings, txn>>
    /\ UNCHANGED <<providers, receivers, claims, open, params, attempts, clock>>

\* execute_query: conn.close(); then st.success(...)
execute_query_close(s) ==
    /\ pc[s] = "close"
    /\ open' = [open EXCEPT ![s] = @ - 1]
    /\ out' = [out EXCEPT ![s] = Append(@, Success)]
    /\ pc' = [pc EXCEPT ![s] = "idle"]
    /\ UNCHANGED <<store, txn, params, attempts, clock>>

\* The connections a run left open are closed when the interpreter frees
\* them, after the run; closing rolls a pending transaction back.
ReleaseLeaked(s) ==
    /\ pc[s] = "idle"
    /\ open[s] > 0
    /\ open' = [open EXCEPT ![s] = 0]
    /\ txn' = IF txn # NoTxn /\ txn.owner = s THEN NoTxn ELSE txn
    /\ UNCHANGED <<store, pc, params, attempts, out, clock>>

\* midnight passes in UTC
MidnightUTC ==
    /\ utcDay < Len(Calendar)
    /\ \/ zone = "west" /\ utcDay = localDay /\ localDay' = localDay
       \/ zone = "east" /\ utcDay < localDay /\ localDay' = localDay
       \/ zone = "utc" /\ localDay' = localDay + 1
    /\ utcDay' = utcDay + 1
    /\ UNCHANGED <<store, txn, open, pc, params, attempts, out, zone>>

\* midnight passes in the server's time zone
MidnightLocal ==
    /\ localDay < Len(Calendar)
    /\ \/ zone = "east" /\ localDay = utcDay
       \/ zone = "west" /\ localDay < utcDay
    /\ localDay' = localDay + 1
    /\ UNCHANGED <<store, txn, open, pc, params, attempts, out, zone, utcDay>>

-----------------------------------------------------------------------------
(* Specifications *)

InitSessions ==
    /\ txn = NoTxn
    /\ open = [s \in Sessions |-> 0]
    /\ pc = [s \in Sessions |-> "idle"]
    /\ params = [s \in Sessions |-> NoParams]
    /\ attempts = [s \in Sessions |-> 0]
    /\ out = [s \in Sessions |-> <<>>]

InitStore ==
    \E st \in InitStores :
        /\ providers = st.providers
        /\ receivers = st.receivers
        /\ food_listings = st.food_listings
        /\ claims = st.claims

\* the read pages of a session
Read(s) ==
    \/ DashboardProviders(s)
    \/ DashboardReceivers(s)
    \/ DashboardListings(s)
    \/ DashboardCity(s)
    \/ ViewFoodListings(s)
    \/ ClaimsManagement(s)
    \/ SqlAnalysis(s)
    \/ ShowForm(s)

\* the Listing Creator of a session, and the release of what its runs leak
Write(s) ==
    \/ SubmitForm(s)
    \/ execute_query_execute(s)
    \/ execute_query_commit(s)
    \/ execute_query_close(s)
    \/ ReleaseLeaked(s)

\* Two browser sessions against one store on one day, the server in UTC:
\* session s1 uses every page, session s2 submits listings meanwhile.
Init ==
    /\ InitStore
    /\ InitSessions
    /\ zone = "utc"
    /\ utcDay = 2
    /\ localDay = 2

Next == Read("s1") \/ Write("s1") \/ Write("s2")

Spec == Init /\ [][Next]_vars

\* One session browsing a store of any content: the Listing Browser alone,
\* over every table of at most MaxFetched listings.
MaxFetched == 2

BrowseCities == {"Springfield", "Shelbyville"}
BrowseFoodTypes == {"Vegetarian", "Vegan"}
BrowseMealTypes == {"Breakfast", "Dinner"}

BrowseTables ==
    UNION { [ 1..n -> BrowseCities \X BrowseFoodTypes \X BrowseMealTypes ] :
            n \in 0..MaxFetched }

BrowseRow(i, c) ==
    [Food_ID |-> i, Food_Name |-> "Soup", Quantity |-> 5,
     Expiry_Date |-> isoformat(Calendar[1]), Provider_ID |-> 1,
     Provider_Type |-> "Restaurant", Location |-> c[1],
     Food_Type |-> c[2], Meal_Type |-> c[3]]

InitBrowse ==
    /\ \E t \in BrowseTables :
          food_listings = [ i \in 1..Len(t) |-> BrowseRow(i, t[i]) ]
    /\ providers = <<>>
    /\ receivers = <<>>
    /\ claims = <<>>
    /\ InitSessions
    /\ zone = "utc"
    /\ utcDay = 2
    /\ localDay = 2

NextBrowse == ViewFoodListings("s1")

SpecBrowse == InitBrowse /\ [][NextBrowse]_vars

\* One session while days pass, the server in any time zone: the Listing
\* Creator and the reports.
InitClock ==
    /\ InitStore
    /\ InitSessions
    /\ zone \in {"west", "utc", "east"}
    /\ utcDay = 1
    /\ localDay = 1

NextClock ==
    \/ MidnightUTC
    \/ MidnightLocal
    \/ SqlAnalysis("s1")
    \/ Write("s1")

SpecClock == InitClock /\ [][NextClock]_vars

-----------------------------------------------------------------------------
(* Vocabulary of the properties *)

Last(sq) == sq[Len(sq)]

\* the date a YYYY-MM-DD text denotes
ParseDate(t) ==
    [year  |-> (t[1] - 48) * 1000 + (t[2] - 48) * 100 + (t[3] - 48) * 10 + (t[4] - 48),
     month |-> (t[6] - 48) * 10 + (t[7] - 48),
     day   |-> (t[9] - 48) * 10 + (t[10] - 48)]

\* a listing passes the chosen values: equal on every dimension not "All"
Matches(r, city, food_type, meal_type) ==
    /\ city = "All" \/ r.Location = city
    /\ food_type = "All" \/ r.Food_Type = food_type
    /\ meal_type = "All" \/ r.Meal_Type = meal_type

\* the screen o is a rendered Listing Browser
ViewShown(o) ==
    /\ Len(o) = 4
    /\ o[1].kind = "selectbox"
    /\ o[1].label = "City"

\* the screen o is a rendered report (the query did not raise)
ReportShown(o) ==
    /\ Len(o) >= 2
    /\ o[1].kind = "selectbox"
    /\ o[1].label = "Select a Query"
    /\ o[2].kind # "exception"

\* the screen o is a rendered Claims Browser
ClaimsShown(o) ==
    /\ Len(o) = 1
    /\ o[1].kind = "dataframe"
    /\ o[1].columns = ClaimColumns

\* the screen o is a completely rendered Dashboard
DashboardShown(o) ==
    /\ Len(o) = 4
    /\ o[1].kind = "metric"
    /\ o[4].kind = "bar_chart"

\* the sum of the Listings column of a chart's rows
RECURSIVE ChartSum(_)
ChartSum(S) ==
    IF S = {} THEN 0
    ELSE LET x == CHOOSE y \in S : TRUE IN x.Listings + ChartSum(S \ {x})

\* claim c refers to a listing and a receiver that exist
Resolves(c) ==
    /\ \E f \in Range(food_listings) : f.Food_ID = c.Food_ID
    /\ \E r \in Range(receivers) : r.Receiver_ID = c.Receiver_ID

\* session s takes a step of its script
Steps(s) ==
    <<pc[s], out[s], params[s], attempts[s]>> #
        <<pc'[s], out'[s], params'[s], attempts'[s]>>

-----------------------------------------------------------------------------
(* C1 *)

\* C1: the commit of a submitted form adds exactly one row to food_listings:
\* the rows held before stay as they were, the new row carries the eight
\* submitted values (the expiry date as its YYYY-MM-DD text), its Food_ID is
\* none of the identities held before, a fetch of the Listing Browser
\* contains it and the count behind Total Food Listings is one higher; no
\* other step of a run adds a row, and a run commits at most once.
C1_SubmitAddsExactlyOneRow ==
    [][\A s \in Sessions :
         /\ (pc[s] = "commit" /\ pc'[s] = "close") =>
               LET v == params[s]
                   n == Len(food_listings)
                   r == food_listings'[n + 1]
               IN  /\ Len(food_listings') = n + 1
                   /\ \A i \in 1..n : food_listings'[i] = food_listings[i]
                   /\ r.Food_Name = v.food_name
                   /\ r.Quantity = v.quantity
                   /\ Len(r.Expiry_Date) = 10
                   /\ ParseDate(r.Expiry_Date) = v.expiry
                   /\ r.Provider_ID = v.provider_id
                   /\ r.Provider_Type = v.provider_type
                   /\ r.Location = v.location
                   /\ r.Food_Type = v.food_type
                   /\ r.Meal_Type = v.meal_type
                   /\ \A i \in 1..n : food_listings[i].Food_ID # r.Food_ID
                   /\ r \in Range(FilterListings(food_listings', "All", "All", "All"))
                   /\ CountRows(food_listings') = CountRows(food_listings) + 1
         /\ (Steps(s) /\ ~(pc[s] = "commit" /\ pc'[s] = "close")) =>
               food_listings' = food_listings
         /\ pc[s] = "close" => pc'[s] \in {"close", "idle"}
      ]_vars

\* a second row has been committed, with the values its session submitted
C1_Witness ==
    \E s \in Sessions :
        /\ pc[s] = "close"
        /\ Len(food_listings) >= 2
        /\ Last(food_listings).Food_Name = params[s].food_name
        /\ Last(food_listings).Food_ID = Len(food_listings)

-----------------------------------------------------------------------------
(* C2 *)

\* C2: what the Listing Browser displays is exactly the fetched rows, in
\* their order, that equal the chosen value on every dimension not set to
\* "All"; applying the chosen filters one at a time gives the same rows in
\* each of the six orders, and the rows displayed are the intersection of
\* the rows each chosen filter gives alone.
C2_FilterConjunctiveCommutative ==
    \A s \in Sessions :
        ViewShown(out[s]) =>
            LET city == out[s][1].value
                food_type == out[s][2].value
                meal_type == out[s][3].value
                shown == out[s][4].rows
                df == food_listings
                One(t, k) == CASE k = 1 -> FilterListings(t, city, "All", "All")
                               [] k = 2 -> FilterListings(t, "All", food_type, "All")
                               [] k = 3 -> FilterListings(t, "All", "All", meal_type)
            IN  /\ shown = SelectSeq(df, LAMBDA r : Matches(r, city, food_type, meal_type))
                /\ \A p \in [1..3 -> 1..3] :
                      (\A i, j \in 1..3 : p[i] = p[j] => i = j) =>
                          One(One(One(df, p[1]), p[2]), p[3]) = shown
                /\ Range(shown) =
                      Range(One(df, 1)) \cap Range(One(df, 2)) \cap Range(One(df, 3))

\* two filters are set, some row passes both, and some row passes the city
\* filter but not the food type filter
C2_Witness ==
    \E s \in Sessions :
        /\ ViewShown(out[s])
        /\ out[s][1].value # "All"
        /\ out[s][2].value # "All"
        /\ Len(out[s][4].rows) >= 1
        /\ \E r \in Range(food_listings) :
              r.Location = out[s][1].value /\ r.Food_Type # out[s][2].value

-----------------------------------------------------------------------------
(* C3 *)

\* C3: a report whose result has exactly two columns is rendered as a bar
\* chart with the first column as the index (category axis) and the second
\* as the value; a result of any other column count is rendered as a table
\* and gets no chart.  (The table is rendered for two columns too, above
\* the chart.)
C3_ChartIffTwoColumns ==
    \A s \in Sessions :
        ReportShown(out[s]) =>
            LET cols == QueryColumns[out[s][1].value]
                shown == Tail(out[s])
            IN  /\ shown[1].kind = "dataframe"
                /\ shown[1].columns = cols
                /\ Len(cols) = 2 =>
                      /\ Len(shown) = 2
                      /\ shown[2].kind = "bar_chart"
                      /\ shown[2].index = cols[1]
                      /\ shown[2].columns = <<cols[2]>>
                /\ Len(cols) # 2 => Len(shown) = 1

\* a report of two columns is on screen, as a table and a chart
C3_Witness ==
    \E s \in Sessions :
        /\ ReportShown(out[s])
        /\ Len(QueryColumns[out[s][1].value]) = 2
        /\ Len(out[s]) = 3
        /\ out[s][2].kind = "dataframe"
        /\ out[s][3].kind = "bar_chart"

-----------------------------------------------------------------------------
(* C4 *)

\* C4: when control is back at the rendering layer (the run of a session is
\* over), the session holds no open connection, however the run ended.
C4_ConnectionsReleased ==
    \A s \in Sessions : pc[s] = "idle" => open[s] = 0

-----------------------------------------------------------------------------
(* C5 *)

\* the listings of t whose expiry date is strictly before the date d0, as
\* report 15 projects them
ExpiredBefore(t, d0) ==
    LET e == SelectSeq(t, LAMBDA r : DateLT(ParseDate(r.Expiry_Date), d0))
    IN  [ i \in 1..Len(e) |->
            [Food_Name |-> e[i].Food_Name, Expiry_Date |-> e[i].Expiry_Date,
             Location |-> e[i].Location] ]

\* report 15 is on the screen o
Report15Shown(o) ==
    /\ ReportShown(o)
    /\ o[1].value = 15

\* C5: a run of report 15 shows exactly the listings whose expiry date is
\* strictly before today, the date the Listing Creator goes by: none that
\* expires today or later, and every one that expired before today.
C5_ExpiredStrictlyBeforeToday ==
    [][\A s \in Sessions :
         (pc[s] = "idle" /\ Steps(s) /\ Report15Shown(out'[s])) =>
             out'[s][2].rows = ExpiredBefore(food_listings, today)
      ]_vars

\* what report 15 does show: the listings whose expiry date is strictly
\* before the current UTC date
C5_ExpiredStrictlyBeforeUtcDate ==
    [][\A s \in Sessions :
         (pc[s] = "idle" /\ Steps(s) /\ Report15Shown(out'[s])) =>
             out'[s][2].rows = ExpiredBefore(food_listings, Calendar[utcDay])
      ]_vars

-----------------------------------------------------------------------------
(* C6 *)

\* C6: a run of the Claims Browser shows one row for every claim whose
\* Food_ID and Receiver_ID both resolve, carrying the food name and receiver
\* name they resolve to, and no row for a claim of which either is absent
\* from the store; nothing else is shown.
C6_ClaimsInnerJoin ==
    [][\A s \in Sessions :
         (pc[s] = "idle" /\ Steps(s) /\ ClaimsShown(out'[s])) =>
             LET rows == out'[s][1].rows
             IN  /\ \A i \in 1..Len(claims) :
                       Cardinality({ k \in 1..Len(rows) :
                                       rows[k].Claim_ID = claims[i].Claim_ID })
                           = IF Resolves(claims[i]) THEN 1 ELSE 0
                 /\ \A k \in 1..Len(rows) :
                       \E i \in 1..Len(claims) :
                           /\ rows[k].Claim_ID = claims[i].Claim_ID
                           /\ rows[k].Status = claims[i].Status
                           /\ rows[k].Timestamp = claims[i].Timestamp
                           /\ \E f \in Range(food_listings) :
                                 /\ f.Food_ID = claims[i].Food_ID
                                 /\ f.Food_Name = rows[k].Food_Name
                           /\ \E r \in Range(receivers) :
                                 /\ r.Receiver_ID = claims[i].Receiver_ID
                                 /\ r.Name = rows[k].Receiver_Name
      ]_vars

\* the Claims Browser is on screen with fewer rows than there are claims
C6_Witness ==
    \E s \in Sessions :
        /\ ClaimsShown(out[s])
        /\ Len(out[s][1].rows) >= 1
        /\ Len(out[s][1].rows) < Len(claims)
        /\ \E c \in Range(claims) : ~Resolves(c)

-----------------------------------------------------------------------------
(* C7 *)

\* C7: a submission that ends in an exception (raised by get_connection, by
\* the statement or by the commit) has called execute_query exactly once;
\* the step that raises ends the run (nothing is tried again), leaves
\* food_listings as it was and shows the exception last, with no
\* confirmation.  A confirmation is shown only by a run that has committed:
\* the step showing it comes after the commit, with the submitted row in
\* the table.
C7_FailureLeavesStoreAndShowsNoSuccess ==
    [][\A s \in Sessions :
         /\ ( /\ Steps(s)
              /\ pc[s] \in {"idle", "execute", "commit"}
              /\ pc'[s] = "idle"
              /\ params'[s] # NoParams ) =>
               /\ food_listings' = food_listings
               /\ Last(out'[s]) = Exception
               /\ Success \notin Range(out'[s])
               /\ attempts'[s] = 1
         /\ attempts'[s] <= 1
         /\ (Steps(s) /\ pc[s] = "execute") => pc'[s] \in {"commit", "idle"}
         /\ (Steps(s) /\ pc[s] = "commit") => pc'[s] \in {"close", "idle"}
         /\ (Steps(s) /\ pc[s] \in {"execute", "commit"} /\ pc'[s] = "idle") =>
               Last(out'[s]) = Exception
         /\ (Steps(s) /\ Success \in Range(out'[s])) =>
               /\ pc[s] = "close"
               /\ \E r \in Range(food_listings) :
                     r = InsertRow(params[s], r.Food_ID)
         /\ (pc'[s] = "close" /\ pc[s] # "close") =>
               /\ pc[s] = "commit"
               /\ Len(food_listings') = Len(food_listings) + 1
      ]_vars

\* a commit has failed: the run is over with the exception on screen, the
\* statement was sent once and its transaction is still pending
C7_Witness ==
    \E s \in Sessions :
        /\ pc[s] = "idle"
        /\ out[s] # <<>>
        /\ Last(out[s]) = Exception
        /\ attempts[s] = 1
        /\ txn # NoTxn
        /\ txn.owner = s

-----------------------------------------------------------------------------
(* C8 *)

\* C8: each of the three count queries of the Dashboard shows, under its
\* label, the number of rows its table holds when the query runs (0 for an
\* empty table), and leaves the four tables as they were.
C8_CountsAreRowCounts ==
    [][\A s \in Sessions :
         /\ (pc[s] = "idle" /\ pc'[s] = "dashboard_receivers") =>
               /\ out'[s] = << Metric("Total Providers", Len(providers)) >>
               /\ store' = store
         /\ (pc[s] = "dashboard_receivers" /\ pc'[s] = "dashboard_listings") =>
               /\ out'[s] = Append(out[s], Metric("Total Receivers", Len(receivers)))
               /\ store' = store
         /\ (pc[s] = "dashboard_listings" /\ pc'[s] = "dashboard_city") =>
               /\ out'[s] = Append(out[s], Metric("Total Food Listings",
                                                  Len(food_listings)))
               /\ store' = store
      ]_vars

\* the three metrics are on screen: no provider, and at least one listing
C8_Witness ==
    \E s \in Sessions :
        /\ pc[s] = "dashboard_city"
        /\ out[s][1].value = 0
        /\ out[s][3].value >= 1

-----------------------------------------------------------------------------
(* C9 *)

\* C9: no step changes providers, receivers or claims; no step removes or
\* changes a row of food_listings; the only change to food_listings is the
\* commit of a Listing Creator run appending one row.
C9_OnlyTheListingCreatorWrites ==
    [][/\ providers' = providers
       /\ receivers' = receivers
       /\ claims' = claims
       /\ Len(food_listings') >= Len(food_listings)
       /\ \A i \in 1..Len(food_listings) : food_listings'[i] = food_listings[i]
       /\ food_listings' # food_listings =>
             /\ Len(food_listings') = Len(food_listings) + 1
             /\ \E s \in Sessions : pc[s] = "commit" /\ pc'[s] = "close"
      ]_vars

\* listings were added to a populated store and pages rendered since
C9_Witness ==
    /\ Len(food_listings) >= 2
    /\ food_listings[1].Food_Name = "Soup"
    /\ \E s \in Sessions : pc[s] = "idle" /\ Success \in Range(out[s])
    /\ ViewShown(out["s1"])

-----------------------------------------------------------------------------
(* C10 *)

\* C10 as stated: on a completely rendered Dashboard the Total Food Listings
\* metric equals the sum of the per-location counts of the chart.
C10_MetricEqualsChartSum ==
    \A s \in Sessions :
        DashboardShown(out[s]) => out[s][3].value = ChartSum(out[s][4].rows)

\* C10 amended: the metric is the number of listings committed when the
\* count query runs and the sum of the chart's counts is the number
\* committed when the group-by query runs; the sum is never less than the
\* metric, and equals it when no insert was committed between the two
\* queries.
C10_MetricAndChartSumAtTheirQueries ==
    [][\A s \in Sessions :
         /\ (pc[s] = "dashboard_listings" /\ pc'[s] = "dashboard_city") =>
               Last(out'[s]).value = Len(food_listings)
         /\ (pc[s] = "dashboard_city" /\ DashboardShown(out'[s])) =>
               /\ ChartSum(out'[s][4].rows) = Len(food_listings)
               /\ out'[s][3].value <= ChartSum(out'[s][4].rows)
               /\ out[s][3].value = Len(food_listings) =>
                     out'[s][3].value = ChartSum(out'[s][4].rows)
      ]_vars

\* a Dashboard is on screen whose chart counts more listings than its metric
C10_Witness ==
    \E s \in Sessions :
        /\ DashboardShown(out[s])
        /\ out[s][3].value < ChartSum(out[s][4].rows)

====
